---- MODULE Spec2Model ----
(***************************************************************************)
(* Agent infrastructure: the execution logger (src/lib/supabase.js and the *)
(* copy inlined in the Nova worker), the Nova handler and the Ada handler, *)
(* against the agent_executions table of the durable store.                *)
(*                                                                         *)
(* JSON values of nullable slots are wrapped: Null is JavaScript null,     *)
(* Undefined is JavaScript undefined, Some(v) is the value v.  Execution   *)
(* ids are UUID strings (src/development.md:268), so a present id is       *)
(* always truthy.                                                          *)
(***************************************************************************)
EXTENDS Integers, Sequences, FiniteSets, TLC

VARIABLES
    executions,  \* rows of the store's agent_executions table, in insertion order
    creator,     \* creator[k]: the invocation whose start inserted row k (0: a direct logger call)
    inv,         \* inv[i]: the local state of handler invocation i
    now,         \* Date.now()
    lastCall,    \* the most recent direct call of a logger function and its result
    conversations, \* rows of the store's conversations table, in insertion order
    messages,    \* rows of the store's messages table, in insertion order
    call,        \* call[c]: the state of caller c's getOrCreateConversation call
    lastSave,    \* the most recent direct call of saveMessage and its result
    checkbox     \* a call of getCheckboxText: its arguments and the text it returned

\* the conversation accessor's part of the state
convVars == <<conversations, messages, call, lastSave>>

vars == <<executions, creator, inv, now, lastCall, convVars, checkbox>>

\* ----- bounds of the model -----
NumInvocations == 2
MaxClock == 1
MaxRecords == 2
MaxDuration == 1
MaxExamples == 1
MaxPages == 1

Invocations == 1..NumInvocations

\* ----- JSON values -----
Null == [null |-> TRUE]
Undefined == [undefined |-> TRUE]
Some(v) == [v |-> v]

\* JavaScript truthiness of a wrapped value (!x is ~Truthy(x))
Truthy(x) == x # Null /\ x # Undefined

\* a || null
OrNull(x) == IF Truthy(x) THEN x ELSE Null

\* obj.key of a parsed JSON object: undefined when the key is absent
Field(obj, key) == IF key \in DOMAIN obj THEN obj[key] ELSE Undefined

\* JSON.stringify of an object of wrapped values drops the keys whose value is undefined
JsonObject(obj) == [k \in {d \in DOMAIN obj : obj[d] # Undefined} |-> obj[k]]

\* the id the store generates for its n-th row
IdOf(n) == Some("e" \o ToString(n))

\* ----- the durable store: table agent_executions -----
InsertOutcomes == {"created", "non2xx", "throw", "malformed", "empty", "noid"}
UpdateOutcomes == {"ok", "non2xx", "throw"}

\* what fetch() resolves to: threw (rejected), ok (2xx), parses (body is JSON), rows
Response(threw, ok, parses, rows) ==
    [threw |-> threw, ok |-> ok, parses |-> parses, rows |-> rows]

\* POST /rest/v1/agent_executions with Prefer: return=representation.
\* created: row stored, body [row].  non2xx: rejected.  throw: the request never
\* reaches the store.  malformed: row stored, body is not JSON.  empty: 2xx with
\* body [] and nothing stored.  noid: row stored, representation without id.
StoreInsert(execs, outcome, logEntry) ==
    LET row == logEntry @@
               [id |-> IdOf(Len(execs) + 1), output |-> Null,
                error_message |-> Null, duration_ms |-> Null]
        noId == [k \in DOMAIN row \ {"id"} |-> row[k]]
    IN CASE outcome = "created" ->
              [execs |-> Append(execs, row), resp |-> Response(FALSE, TRUE, TRUE, <<row>>)]
         [] outcome = "malformed" ->
              [execs |-> Append(execs, row), resp |-> Response(FALSE, TRUE, FALSE, <<>>)]
         [] outcome = "noid" ->
              [execs |-> Append(execs, row), resp |-> Response(FALSE, TRUE, TRUE, <<noId>>)]
         [] outcome = "empty" ->
              [execs |-> execs, resp |-> Response(FALSE, TRUE, TRUE, <<>>)]
         [] outcome = "non2xx" ->
              [execs |-> execs, resp |-> Response(FALSE, FALSE, TRUE, <<>>)]
         [] OTHER ->
              [execs |-> execs, resp |-> Response(TRUE, FALSE, FALSE, <<>>)]

\* mutant: the id filter is left out of the PATCH
StoreUpdateAllRows(execs, outcome, executionId, patch) ==
    LET patched(row) == [k \in DOMAIN row |-> IF k \in DOMAIN patch THEN patch[k] ELSE row[k]]
    IN CASE outcome = "ok" ->
              [execs |-> [k \in DOMAIN execs |-> patched(execs[k])],
               resp |-> Response(FALSE, TRUE, TRUE, <<>>)]
         [] outcome = "non2xx" ->
              [execs |-> execs, resp |-> Response(FALSE, FALSE, TRUE, <<>>)]
         [] OTHER ->
              [execs |-> execs, resp |-> Response(TRUE, FALSE, FALSE, <<>>)]

\* PATCH /rest/v1/agent_executions?id=eq.<executionId>: every row whose id
\* matches takes the patch's columns; no other filter is sent.
StoreUpdate(execs, outcome, executionId, patch) ==
    LET patched(row) == [k \in DOMAIN row |-> IF k \in DOMAIN patch THEN patch[k] ELSE row[k]]
    IN CASE outcome = "ok" ->
              [execs |-> [k \in DOMAIN execs |->
                            IF execs[k].id = executionId THEN patched(execs[k]) ELSE execs[k]],
               resp |-> Response(FALSE, TRUE, TRUE, <<>>)]
         [] outcome = "non2xx" ->
              [execs |-> execs, resp |-> Response(FALSE, FALSE, TRUE, <<>>)]
         [] OTHER ->
              [execs |-> execs, resp |-> Response(TRUE, FALSE, FALSE, <<>>)]

\* ----- the execution logger -----
\* The result of a logger call: the store after it, the returned value, whether
\* the call raised to its caller, and how many requests it sent to the store.
LogResult(execs, ret, raised, requests) ==
    [execs |-> execs, ret |-> ret, raised |-> raised, requests |-> requests]

\* result[0]?.id || null
FirstId(rows) ==
    IF rows = <<>> THEN Null ELSE OrNull(Field(rows[1], "id"))

\* mutant: the catch block rethrows instead of returning null
logExecutionStartRethrows(execs, outcome, conversationId, agentId, input, createdAt) ==
    LET logEntry == [conversation_id |-> OrNull(conversationId), agent_id |-> agentId,
                     input |-> input, status |-> "running", created_at |-> createdAt]
        f == StoreInsert(execs, outcome, logEntry)
    IN IF f.resp.threw \/ (f.resp.ok /\ ~f.resp.parses) THEN LogResult(f.execs, Null, TRUE, 1)
       ELSE IF ~f.resp.ok THEN LogResult(f.execs, Null, FALSE, 1)
       ELSE LogResult(f.execs, FirstId(f.resp.rows), FALSE, 1)

logExecutionStart(execs, outcome, conversationId, agentId, input, createdAt) ==
    LET logEntry == [conversation_id |-> OrNull(conversationId), agent_id |-> agentId,
                     input |-> input, status |-> "running", created_at |-> createdAt]
        f == StoreInsert(execs, outcome, logEntry)
    IN IF f.resp.threw THEN LogResult(f.execs, Null, FALSE, 1)
       ELSE IF ~f.resp.ok THEN LogResult(f.execs, Null, FALSE, 1)
       ELSE IF ~f.resp.parses THEN LogResult(f.execs, Null, FALSE, 1)
       ELSE LogResult(f.execs, FirstId(f.resp.rows), FALSE, 1)

\* the copy of logExecutionStart inlined in the Nova worker: it also sets form_type
novaLogExecutionStart(execs, outcome, conversationId, agentId, input, createdAt) ==
    LET logEntry == [conversation_id |-> OrNull(conversationId), agent_id |-> agentId,
                     input |-> input, form_type |-> Null, status |-> "running",
                     created_at |-> createdAt]
        f == StoreInsert(execs, outcome, logEntry)
    IN IF f.resp.threw THEN LogResult(f.execs, Null, FALSE, 1)
       ELSE IF ~f.resp.ok THEN LogResult(f.execs, Null, FALSE, 1)
       ELSE IF ~f.resp.parses THEN LogResult(f.execs, Null, FALSE, 1)
       ELSE LogResult(f.execs, FirstId(f.resp.rows), FALSE, 1)

\* mutant: the catch block rethrows a transport error
logExecutionCompleteRethrows(execs, outcome, executionId, output, durationMs) ==
    IF ~Truthy(executionId) THEN LogResult(execs, Undefined, FALSE, 0)
    ELSE LET f == StoreUpdate(execs, outcome, executionId,
                       [output |-> output, status |-> "success", duration_ms |-> Some(durationMs)])
         IN LogResult(f.execs, Undefined, f.resp.threw, 1)

\* mutant: the update leaves the output column out
logExecutionCompleteDropsOutput(execs, outcome, executionId, output, durationMs) ==
    IF ~Truthy(executionId) THEN LogResult(execs, Undefined, FALSE, 0)
    ELSE LET f == StoreUpdate(execs, outcome, executionId,
                       [status |-> "success", duration_ms |-> Some(durationMs)])
         IN LogResult(f.execs, Undefined, FALSE, 1)

\* mutant: the guard on a missing executionId is dropped
logExecutionCompleteNoGuard(execs, outcome, executionId, output, durationMs) ==
    LET f == StoreUpdate(execs, outcome, executionId,
                 [output |-> output, status |-> "success", duration_ms |-> Some(durationMs)])
    IN LogResult(f.execs, Undefined, FALSE, 1)

logExecutionComplete(execs, outcome, executionId, output, durationMs) ==
    IF ~Truthy(executionId) THEN LogResult(execs, Undefined, FALSE, 0)
    ELSE LET f == StoreUpdate(execs, outcome, executionId,
                       [output |-> output, status |-> "success", duration_ms |-> Some(durationMs)])
         IN LogResult(f.execs, Undefined, FALSE, 1)

\* mutant: the update leaves the error_message column out
logExecutionErrorDropsMessage(execs, outcome, executionId, errorMessage, durationMs) ==
    IF ~Truthy(executionId) THEN LogResult(execs, Undefined, FALSE, 0)
    ELSE LET f == StoreUpdate(execs, outcome, executionId,
                       [status |-> "error", duration_ms |-> Some(durationMs)])
         IN LogResult(f.execs, Undefined, FALSE, 1)

\* mutant: the guard on a missing executionId is dropped
logExecutionErrorNoGuard(execs, outcome, executionId, errorMessage, durationMs) ==
    LET f == StoreUpdate(execs, outcome, executionId,
                 [status |-> "error", error_message |-> errorMessage,
                  duration_ms |-> Some(durationMs)])
    IN LogResult(f.execs, Undefined, FALSE, 1)

logExecutionError(execs, outcome, executionId, errorMessage, durationMs) ==
    IF ~Truthy(executionId) THEN LogResult(execs, Undefined, FALSE, 0)
    ELSE LET f == StoreUpdate(execs, outcome, executionId,
                       [status |-> "error", error_message |-> errorMessage,
                        duration_ms |-> Some(durationMs)])
         IN LogResult(f.execs, Undefined, FALSE, 1)

Min(a, b) == IF a < b THEN a ELSE b

\* ----- environment bindings -----
EnvKeys == {"ANTHROPIC_API_KEY", "NOTION_TOKEN", "NOTION_DATABASE_ID",
            "SUPABASE_URL", "SUPABASE_KEY", "RESEND_API_KEY"}

\* a credential is a string, kept as its sequence of characters
KeyA == <<"r", "e", "_", "A", "1", "2", "3", "4", "5", "6", "7", "8">>
KeyB == <<"r", "e", "_", "B", "1", "2", "3", "4", "5", "6", "7", "8">>

Envs == {[k \in EnvKeys |-> Undefined],
         [k \in EnvKeys |-> Some(KeyA)],
         [k \in EnvKeys |-> Some(KeyB)]}

PrefixLen == 10

\* value?.substring(0, 10): undefined stays undefined
Prefix(value) ==
    IF value = Undefined THEN Undefined
    ELSE Some(SubSeq(value.v, 1, Min(PrefixLen, Len(value.v))))

\* ----- time -----
\* Date.now() advances between any two steps
Tick ==
    /\ now < MaxClock
    /\ now' = now + 1
    /\ UNCHANGED <<convVars, checkbox, executions, creator, inv, lastCall>>

\* ----- direct calls of the logger library (src/lib/supabase.js) -----
NoCall == [op |-> "none", executionId |-> Null, outcome |-> "none", ret |-> Null,
           raised |-> FALSE, requests |-> 0]

Call(op, executionId, outcome, r) ==
    [op |-> op, executionId |-> executionId, outcome |-> outcome, ret |-> r.ret,
     raised |-> r.raised, requests |-> r.requests]

RowIds == {IdOf(k) : k \in 1..MaxRecords}
Outputs == {[draft |-> Some("hello"), voiceExamplesUsed |-> 0, contextDocsUsed |-> 0]}
Messages == {Some("rate limited")}

LibStart ==
    /\ Len(executions) < MaxRecords
    /\ \E outcome \in InsertOutcomes, conversationId \in {Some("c1")} :
         LET r == logExecutionStart(executions, outcome, conversationId, "nova",
                                    [topic |-> Some("pricing")], now)
         IN /\ executions' = r.execs
            /\ creator' = IF Len(r.execs) > Len(executions) THEN Append(creator, 0) ELSE creator
            /\ lastCall' = Call("start", Null, outcome, r)
    /\ UNCHANGED <<convVars, checkbox, inv, now>>

LibComplete ==
    /\ \E executionId \in RowIds \cup {Null}, outcome \in UpdateOutcomes,
          output \in Outputs, durationMs \in 0..MaxDuration :
         LET r == logExecutionComplete(executions, outcome, executionId, output, durationMs)
         IN /\ executions' = r.execs
            /\ lastCall' = Call("complete", executionId, outcome, r)
    /\ UNCHANGED <<convVars, checkbox, creator, inv, now>>

LibError ==
    /\ \E executionId \in RowIds \cup {Null}, outcome \in UpdateOutcomes,
          errorMessage \in Messages, durationMs \in 0..MaxDuration :
         LET r == logExecutionError(executions, outcome, executionId, errorMessage, durationMs)
         IN /\ executions' = r.execs
            /\ lastCall' = Call("error", executionId, outcome, r)
    /\ UNCHANGED <<convVars, checkbox, creator, inv, now>>

\* ----- the conversation accessor (src/lib/supabase.js) -----
NumCallers == 3
MaxMessages == 2

Callers == 1..NumCallers
UserIds == {"u1", "u2"}

\* the ids the store generates for the n-th conversation and the n-th message
ConvId(n) == Some("c" \o ToString(n))
MsgId(n) == Some("m" \o ToString(n))

SelectOutcomes == {"ok", "non2xx", "throw", "malformed"}
PostOutcomes == {"created", "non2xx", "throw", "malformed", "empty"}

\* the rows matching user_id=eq.<userId>&status=eq.active
ActiveOf(convs, userId) ==
    {k \in DOMAIN convs : convs[k].user_id = userId /\ convs[k].status = "active"}

\* the rows that order=created_at.desc&limit=1 can put first
Latest(convs, userId) ==
    {k \in ActiveOf(convs, userId) :
       \A j \in ActiveOf(convs, userId) : convs[j].created_at <= convs[k].created_at}

\* GET /rest/v1/conversations?user_id=eq.<userId>&status=eq.active&order=created_at.desc&limit=1
\* answering with row k (0: no row matches).  non2xx: the body is an error
\* object, which has no length.
StoreSelect(convs, outcome, k) ==
    CASE outcome = "ok" ->
           Response(FALSE, TRUE, TRUE, IF k = 0 THEN <<>> ELSE <<convs[k]>>)
      [] outcome = "non2xx" -> Response(FALSE, FALSE, TRUE, <<>>)
      [] outcome = "malformed" -> Response(FALSE, TRUE, FALSE, <<>>)
      [] OTHER -> Response(TRUE, FALSE, FALSE, <<>>)

\* POST /rest/v1/<table> with Prefer: return=representation
StorePost(table, outcome, row) ==
    CASE outcome = "created" ->
           [table |-> Append(table, row), resp |-> Response(FALSE, TRUE, TRUE, <<row>>)]
      [] outcome = "malformed" ->
           [table |-> Append(table, row), resp |-> Response(FALSE, TRUE, FALSE, <<>>)]
      [] outcome = "empty" ->
           [table |-> table, resp |-> Response(FALSE, TRUE, TRUE, <<>>)]
      [] outcome = "non2xx" ->
           [table |-> table, resp |-> Response(FALSE, FALSE, TRUE, <<>>)]
      [] OTHER ->
           [table |-> table, resp |-> Response(TRUE, FALSE, FALSE, <<>>)]

\* mutant: the result of the lookup is ignored
existingIgnored(resp) ==
    IF resp.threw \/ ~resp.parses THEN [returns |-> TRUE, ret |-> Null]
    ELSE [returns |-> FALSE, ret |-> Null]

\* the first half of getOrCreateConversation: existing = await checkResponse.json();
\* the status of the response is not looked at
existing(resp) ==
    IF resp.threw \/ ~resp.parses THEN [returns |-> TRUE, ret |-> Null]
    ELSE IF Len(resp.rows) > 0 THEN [returns |-> TRUE, ret |-> Some(resp.rows[1])]
    ELSE [returns |-> FALSE, ret |-> Null]

\* the second half of getOrCreateConversation: return result[0]
result(resp) ==
    IF resp.threw \/ ~resp.parses THEN Null
    ELSE IF resp.rows = <<>> THEN Undefined
    ELSE Some(resp.rows[1])

NotCalled == [pc |-> "idle", userId |-> "none", ret |-> Null, created |-> FALSE,
              faulted |-> FALSE, overlapped |-> FALSE, lookup |-> "none",
              outcome |-> "none"]

\* caller c calls getOrCreateConversation(userId): the lookup and its answer
ConvLookup(c) ==
    /\ call[c].pc = "idle"
    /\ \E userId \in UserIds, outcome \in SelectOutcomes :
         \E k \in IF Latest(conversations, userId) = {} THEN {0}
                  ELSE Latest(conversations, userId) :
            LET e == existing(StoreSelect(conversations, outcome, k))
                inFlight == {d \in Callers : call[d].pc = "create" /\ call[d].userId = userId}
            IN call' = [d \in Callers |->
                          IF d = c
                          THEN [pc |-> IF e.returns THEN "returned" ELSE "create",
                                userId |-> userId, ret |-> e.ret, created |-> FALSE,
                                faulted |-> outcome # "ok", overlapped |-> inFlight # {},
                                lookup |-> outcome, outcome |-> "none"]
                          ELSE IF d \in inFlight THEN [call[d] EXCEPT !.overlapped = TRUE]
                          ELSE call[d]]
    /\ UNCHANGED <<checkbox, conversations, messages, lastSave, executions, creator, inv, now, lastCall>>

\* mutant: the insert is skipped when the user has an active conversation by now
ConvCreateUnlessActive(c) ==
    /\ call[c].pc = "create"
    /\ \E outcome \in PostOutcomes :
         LET row == [id |-> ConvId(Len(conversations) + 1), user_id |-> call[c].userId,
                     status |-> "active", created_at |-> now]
             f == IF ActiveOf(conversations, call[c].userId) # {}
                  THEN [table |-> conversations, resp |-> Response(FALSE, TRUE, TRUE, <<>>)]
                  ELSE StorePost(conversations, outcome, row)
         IN /\ conversations' = f.table
            /\ call' = [call EXCEPT ![c] =
                 [@ EXCEPT !.pc = "returned", !.ret = result(f.resp),
                           !.created = Len(f.table) > Len(conversations),
                           !.faulted = @ \/ outcome # "created", !.outcome = outcome]]
    /\ UNCHANGED <<checkbox, messages, lastSave, executions, creator, inv, now, lastCall>>

\* the lookup found nothing: the insert of a new active conversation and its answer
ConvCreate(c) ==
    /\ call[c].pc = "create"
    /\ \E outcome \in PostOutcomes :
         LET row == [id |-> ConvId(Len(conversations) + 1), user_id |-> call[c].userId,
                     status |-> "active", created_at |-> now]
             f == StorePost(conversations, outcome, row)
         IN /\ conversations' = f.table
            /\ call' = [call EXCEPT ![c] =
                 [@ EXCEPT !.pc = "returned", !.ret = result(f.resp),
                           !.created = Len(f.table) > Len(conversations),
                           !.faulted = @ \/ outcome # "created", !.outcome = outcome]]
    /\ UNCHANGED <<checkbox, messages, lastSave, executions, creator, inv, now, lastCall>>

SaveResult(msgs, ret, requests) == [msgs |-> msgs, ret |-> ret, requests |-> requests]

\* mutant: the guard on a missing conversationId is dropped
saveMessageNoGuard(msgs, outcome, conversationId, role, content, agentId, createdAt) ==
    LET row == [id |-> MsgId(Len(msgs) + 1), conversation_id |-> conversationId,
                role |-> role, content |-> content, agent_id |-> agentId,
                created_at |-> createdAt]
        f == StorePost(msgs, outcome, row)
    IN IF f.resp.threw THEN SaveResult(f.table, Null, 1)
       ELSE IF ~f.resp.ok THEN SaveResult(f.table, Null, 1)
       ELSE SaveResult(f.table, result(f.resp), 1)

saveMessage(msgs, outcome, conversationId, role, content, agentId, createdAt) ==
    IF ~Truthy(conversationId) THEN SaveResult(msgs, Null, 0)
    ELSE LET row == [id |-> MsgId(Len(msgs) + 1), conversation_id |-> conversationId,
                     role |-> role, content |-> content, agent_id |-> agentId,
                     created_at |-> createdAt]
             f == StorePost(msgs, outcome, row)
         IN IF f.resp.threw THEN SaveResult(f.table, Null, 1)
            ELSE IF ~f.resp.ok THEN SaveResult(f.table, Null, 1)
            ELSE SaveResult(f.table, result(f.resp), 1)

NoSave == [conversationId |-> Null, outcome |-> "none", ret |-> Null, requests |-> 0]

Roles == {"user", "assistant"}

\* a direct call of saveMessage
LibSaveMessage ==
    /\ Len(messages) < MaxMessages
    /\ \E conversationId \in {Null, Undefined, ConvId(1)}, outcome \in PostOutcomes,
          role \in Roles :
         LET r == saveMessage(messages, outcome, conversationId, role, "hello", Null, now)
         IN /\ messages' = r.msgs
            /\ lastSave' = [conversationId |-> conversationId, outcome |-> outcome,
                            ret |-> r.ret, requests |-> r.requests]
    /\ UNCHANGED <<checkbox, conversations, call, executions, creator, inv, now, lastCall>>

\* no call of getCheckboxText made
NoCheckbox == [pc |-> "idle", fields |-> <<>>, labelMatch |-> <<>>, text |-> ""]

\* ----- handler invocations -----
Idle == [pc |-> "idle", agent |-> "none", method |-> "none", env |-> Null, body |-> Null,
         startTime |-> 0, executionId |-> Null, voiceExamples |-> 0, contextDocs |-> 0,
         llm |-> Null, thrown |-> Null, response |-> Null,
         inserts |-> 0, updates |-> 0, updateAccepted |-> FALSE,
         collabCalls |-> 0, collabFailed |-> FALSE,
         logCalls |-> 0, loggedError |-> Null, terminalAt |-> 0]

Init ==
    /\ executions = <<>>
    /\ creator = <<>>
    /\ inv = [i \in Invocations |-> Idle]
    /\ now = 0
    /\ lastCall = NoCall
    /\ conversations = <<>>
    /\ messages = <<>>
    /\ call = [c \in Callers |-> NotCalled]
    /\ lastSave = NoSave
    /\ checkbox = NoCheckbox

\* ----- HTTP -----
Methods == {"OPTIONS", "GET", "POST", "PUT"}

\* new Response(body, {status, headers}): cors says whether the CORS headers are
\* set, contentType is the Content-Type header set by the handler (Null: none)
HttpResponse(status, cors, contentType, body) ==
    [status |-> status, cors |-> cors, contentType |-> contentType, body |-> body]

\* a request body: text that JSON.parse rejects, or the parsed JSON value
Unparseable == [parses |-> FALSE]
Json(value) == [parses |-> TRUE, json |-> value]

\* what request.json() throws on text that is not JSON
JsonSyntaxError == Some("Unexpected token in JSON")

With(i, changes) == [inv EXCEPT ![i] = changes @@ inv[i]]

\* ----- Nova: the collaborators -----

\* results of the Notion database query: for each page, whether its Content is non-empty
VoiceResponses ==
    {Response(TRUE, FALSE, FALSE, <<>>), Response(FALSE, FALSE, TRUE, <<>>),
     Response(FALSE, TRUE, FALSE, <<>>)}
    \cup {Response(FALSE, TRUE, TRUE, rows) :
            rows \in UNION {[1..n -> BOOLEAN] : n \in 0..MaxExamples}}

\* the number of voice examples returned: a failed query gives the empty list
getVoiceExamples(resp) ==
    IF resp.threw THEN 0
    ELSE IF ~resp.ok THEN 0
    ELSE IF ~resp.parses THEN 0
    ELSE Cardinality({k \in DOMAIN resp.rows : resp.rows[k]})

SearchSlice == 3

\* results of the Notion search: for each page found, whether the fetch of its
\* blocks gives a body with a results list
SearchResponses ==
    {Response(TRUE, FALSE, FALSE, <<>>), Response(FALSE, FALSE, TRUE, <<>>),
     Response(FALSE, TRUE, FALSE, <<>>)}
    \cup {Response(FALSE, TRUE, TRUE, rows) :
            rows \in UNION {[1..n -> BOOLEAN] : n \in 0..MaxPages}}

\* the number of context documents returned: a failed search gives the empty
\* list, and a page whose content cannot be fetched is dropped
searchNotionWorkspace(resp) ==
    IF resp.threw THEN 0
    ELSE IF ~resp.ok THEN 0
    ELSE IF ~resp.parses THEN 0
    ELSE Cardinality({k \in 1..Min(Len(resp.rows), SearchSlice) : resp.rows[k]})

\* requests sent by searchNotionWorkspace: the search and one per page kept
SearchRequests(resp) ==
    IF resp.threw \/ ~resp.ok \/ ~resp.parses THEN 1
    ELSE 1 + Min(Len(resp.rows), SearchSlice)

\* the Anthropic response: rows is <<text>> when data.content[0].text is there
LlmResponses ==
    {Response(TRUE, FALSE, FALSE, <<>>), Response(FALSE, TRUE, TRUE, <<"draft">>),
     Response(FALSE, TRUE, TRUE, <<>>), Response(FALSE, TRUE, FALSE, <<>>),
     Response(FALSE, FALSE, TRUE, <<>>), Response(FALSE, FALSE, FALSE, <<>>)}

\* mutant: the status of the response is not checked
generateContentIgnoresStatus(resp) ==
    IF resp.threw THEN [thrown |-> Some("fetch failed"), draft |-> Null]
    ELSE IF ~resp.parses
      THEN [thrown |-> Some("Failed to parse Anthropic response"), draft |-> Null]
    ELSE IF resp.rows = <<>>
      THEN [thrown |-> Some("Cannot read properties of undefined"), draft |-> Null]
    ELSE [thrown |-> Null, draft |-> Some(resp.rows[1])]

\* [thrown, draft]: the error generateContent throws (Null: none) and the text it returns
generateContent(resp) ==
    IF resp.threw THEN [thrown |-> Some("fetch failed"), draft |-> Null]
    ELSE IF ~resp.parses
      THEN [thrown |-> Some("Failed to parse Anthropic response"), draft |-> Null]
    ELSE IF ~resp.ok THEN [thrown |-> Some("Claude API error"), draft |-> Null]
    ELSE IF resp.rows = <<>>
      THEN [thrown |-> Some("Cannot read properties of undefined"), draft |-> Null]
    ELSE [thrown |-> Null, draft |-> Some(resp.rows[1])]

\* ----- Nova: the handler -----
NovaBodies ==
    {Unparseable, Json(Null),
     Json([topic |-> Some("pricing"), platform |-> Some("LinkedIn")]),
     Json([platform |-> Some("LinkedIn"), style |-> Some("short")])}

NovaCors == TRUE

NovaProbe(env) ==
    [message |-> "Nova is running",
     hasAnthropicKey |-> Truthy(env["ANTHROPIC_API_KEY"]),
     hasNotionToken |-> Truthy(env["NOTION_TOKEN"]),
     hasNotionDatabase |-> Truthy(env["NOTION_DATABASE_ID"]),
     hasSupabaseUrl |-> Truthy(env["SUPABASE_URL"]),
     hasSupabaseKey |-> Truthy(env["SUPABASE_KEY"])]

\* the input logged for a parsed body
NovaInput(json) ==
    JsonObject([topic |-> Field(json, "topic"), platform |-> Field(json, "platform"),
                style |-> OrNull(Field(json, "style"))])

NovaOutput(draft, voiceExamples, contextDocs) ==
    [draft |-> draft, voiceExamplesUsed |-> voiceExamples, contextDocsUsed |-> contextDocs]

\* mutant: the envelope leaves the execution id out
NovaEnvelopeWithoutId(success, output, error, executionId, timestamp) ==
    [success |-> success, output |-> output, error |-> error,
     metadata |-> [agentId |-> "nova", executionId |-> Null, timestamp |-> timestamp]]

NovaEnvelope(success, output, error, executionId, timestamp) ==
    [success |-> success, output |-> output, error |-> error,
     metadata |-> [agentId |-> "nova", executionId |-> executionId, timestamp |-> timestamp]]

\* mutant: the probe fails when the Anthropic key is not configured
NovaFetchProbeNeedsKey(i) ==
    /\ inv[i].pc = "idle"
    /\ \E method \in Methods, env \in Envs :
         inv' = With(i,
           CASE method = "OPTIONS" ->
                  [pc |-> "done", agent |-> "nova", method |-> method,
                   response |-> HttpResponse(200, NovaCors, Null, Null)]
             [] method = "GET" ->
                  [pc |-> "done", agent |-> "nova", method |-> method, env |-> env,
                   response |-> HttpResponse(
                       IF Truthy(env["ANTHROPIC_API_KEY"]) THEN 200 ELSE 500,
                       NovaCors, Some("application/json"), NovaProbe(env))]
             [] method = "POST" ->
                  [pc |-> "parse", agent |-> "nova", method |-> method, startTime |-> now]
             [] OTHER ->
                  [pc |-> "done", agent |-> "nova", method |-> method,
                   response |-> HttpResponse(405, NovaCors, Null, Some("Method not allowed"))])
    /\ UNCHANGED <<convVars, checkbox, executions, creator, now, lastCall>>

\* the request arrives: OPTIONS, GET and the other non-POST methods are answered
\* at once; a POST records its start time
NovaFetch(i) ==
    /\ inv[i].pc = "idle"
    /\ \E method \in Methods, env \in Envs :
         inv' = With(i,
           CASE method = "OPTIONS" ->
                  [pc |-> "done", agent |-> "nova", method |-> method,
                   response |-> HttpResponse(200, NovaCors, Null, Null)]
             [] method = "GET" ->
                  [pc |-> "done", agent |-> "nova", method |-> method, env |-> env,
                   response |-> HttpResponse(200, NovaCors, Some("application/json"),
                                             NovaProbe(env))]
             [] method = "POST" ->
                  [pc |-> "parse", agent |-> "nova", method |-> method, startTime |-> now]
             [] OTHER ->
                  [pc |-> "done", agent |-> "nova", method |-> method,
                   response |-> HttpResponse(405, NovaCors, Null, Some("Method not allowed"))])
    /\ UNCHANGED <<convVars, checkbox, executions, creator, now, lastCall>>

\* await request.json() and the destructuring of its result
NovaParse(i) ==
    /\ inv[i].pc = "parse" /\ inv[i].agent = "nova"
    /\ \E body \in NovaBodies :
         inv' = With(i,
           IF ~body.parses THEN [pc |-> "catch", body |-> body, thrown |-> JsonSyntaxError]
           ELSE IF body.json = Null
             THEN [pc |-> "catch", body |-> body,
                   thrown |-> Some("Cannot destructure property of null")]
           ELSE [pc |-> "start", body |-> body])
    /\ UNCHANGED <<convVars, checkbox, executions, creator, now, lastCall>>

\* executionId = await logExecutionStart(...)
NovaLogStart(i) ==
    /\ inv[i].pc = "start" /\ inv[i].agent = "nova"
    /\ \E outcome \in InsertOutcomes :
         LET r == novaLogExecutionStart(executions, outcome, Null, "nova",
                                        NovaInput(inv[i].body.json), now)
         IN /\ executions' = r.execs
            /\ creator' = IF Len(r.execs) > Len(executions) THEN Append(creator, i) ELSE creator
            /\ inv' = With(i,
                 IF r.raised
                 THEN [pc |-> "catch", thrown |-> Some("fetch failed"),
                       inserts |-> inv[i].inserts + r.requests,
                       logCalls |-> inv[i].logCalls + 1]
                 ELSE [pc |-> "voice", executionId |-> r.ret,
                       inserts |-> inv[i].inserts + r.requests,
                       logCalls |-> inv[i].logCalls + 1])
    /\ UNCHANGED <<convVars, checkbox, now, lastCall>>

\* voiceExamples = await getVoiceExamples(...)
NovaVoiceExamples(i) ==
    /\ inv[i].pc = "voice"
    /\ \E resp \in VoiceResponses :
         inv' = With(i, [pc |-> "search", voiceExamples |-> getVoiceExamples(resp),
                         collabCalls |-> inv[i].collabCalls + 1,
                         collabFailed |-> inv[i].collabFailed \/ resp.threw \/ ~resp.ok])
    /\ UNCHANGED <<convVars, checkbox, executions, creator, now, lastCall>>

\* contextDocs = await searchNotionWorkspace(...)
NovaSearch(i) ==
    /\ inv[i].pc = "search"
    /\ \E resp \in SearchResponses :
         inv' = With(i, [pc |-> "generate", contextDocs |-> searchNotionWorkspace(resp),
                         collabCalls |-> inv[i].collabCalls + SearchRequests(resp),
                         collabFailed |-> inv[i].collabFailed \/ resp.threw \/ ~resp.ok
                                          \/ \E k \in DOMAIN resp.rows : ~resp.rows[k]])
    /\ UNCHANGED <<convVars, checkbox, executions, creator, now, lastCall>>

\* draft = await generateContent(...)
NovaGenerate(i) ==
    /\ inv[i].pc = "generate"
    /\ \E resp \in LlmResponses :
         LET g == generateContent(resp)
         IN inv' = With(i, [pc |-> IF g.thrown = Null THEN "complete" ELSE "catch",
                            llm |-> resp, thrown |-> g.thrown,
                            collabCalls |-> inv[i].collabCalls + 1,
                            collabFailed |-> inv[i].collabFailed \/ resp.threw \/ ~resp.ok])
    /\ UNCHANGED <<convVars, checkbox, executions, creator, now, lastCall>>

\* mutant: the duration is the clock reading, not the elapsed time
NovaCompleteDurationFromEpoch(i) ==
    /\ inv[i].pc = "complete"
    /\ \E outcome \in UpdateOutcomes :
         LET output == NovaOutput(generateContent(inv[i].llm).draft,
                                  inv[i].voiceExamples, inv[i].contextDocs)
             duration == now
             r == logExecutionComplete(executions, outcome, inv[i].executionId, output, duration)
         IN /\ executions' = r.execs
            /\ inv' = With(i,
                 [pc |-> "done", updates |-> inv[i].updates + r.requests,
                  logCalls |-> inv[i].logCalls + 1, terminalAt |-> now,
                  updateAccepted |-> r.requests > 0 /\ outcome = "ok",
                  response |-> HttpResponse(200, NovaCors, Some("application/json"),
                      NovaEnvelope(TRUE, output, Null, inv[i].executionId, now))])
    /\ UNCHANGED <<convVars, checkbox, creator, now, lastCall>>

\* the end of the try block: await logExecutionComplete(...) and the 200 response
NovaComplete(i) ==
    /\ inv[i].pc = "complete"
    /\ \E outcome \in UpdateOutcomes :
         LET output == NovaOutput(generateContent(inv[i].llm).draft,
                                  inv[i].voiceExamples, inv[i].contextDocs)
             duration == now - inv[i].startTime
             r == logExecutionComplete(executions, outcome, inv[i].executionId, output, duration)
         IN /\ executions' = r.execs
            /\ inv' = With(i,
                 IF r.raised
                 THEN [pc |-> "catch", thrown |-> Some("fetch failed"),
                       updates |-> inv[i].updates + r.requests,
                       logCalls |-> inv[i].logCalls + 1]
                 ELSE [pc |-> "done", updates |-> inv[i].updates + r.requests,
                       logCalls |-> inv[i].logCalls + 1, terminalAt |-> now,
                       updateAccepted |-> r.requests > 0 /\ outcome = "ok",
                       response |-> HttpResponse(200, NovaCors, Some("application/json"),
                           NovaEnvelope(TRUE, output, Null, inv[i].executionId, now))])
    /\ UNCHANGED <<convVars, checkbox, creator, now, lastCall>>

\* mutant: the failure envelope is returned without status: 500
NovaCatchWithoutStatus(i) ==
    /\ inv[i].pc = "catch" /\ inv[i].agent = "nova"
    /\ \E outcome \in UpdateOutcomes :
         LET duration == now - inv[i].startTime
             r == logExecutionError(executions, outcome, inv[i].executionId,
                                    inv[i].thrown, duration)
         IN /\ executions' = r.execs
            /\ inv' = With(i,
                 [pc |-> "done", updates |-> inv[i].updates + r.requests,
                  logCalls |-> inv[i].logCalls + 1, loggedError |-> inv[i].thrown,
                       terminalAt |-> now,
                  updateAccepted |-> r.requests > 0 /\ outcome = "ok",
                  response |-> HttpResponse(200, NovaCors, Some("application/json"),
                      NovaEnvelope(FALSE, Null, inv[i].thrown, inv[i].executionId, now))])
    /\ UNCHANGED <<convVars, checkbox, creator, now, lastCall>>

\* the catch block: await logExecutionError(...) and the 500 response; an error
\* raised inside the catch block leaves the worker without a handled response
NovaCatch(i) ==
    /\ inv[i].pc = "catch" /\ inv[i].agent = "nova"
    /\ \E outcome \in UpdateOutcomes :
         LET duration == now - inv[i].startTime
             r == logExecutionError(executions, outcome, inv[i].executionId,
                                    inv[i].thrown, duration)
         IN /\ executions' = r.execs
            /\ inv' = With(i,
                 IF r.raised
                 THEN [pc |-> "done", updates |-> inv[i].updates + r.requests,
                       logCalls |-> inv[i].logCalls + 1, loggedError |-> inv[i].thrown,
                       terminalAt |-> now,
                       response |-> HttpResponse(500, FALSE, Null, Some("unhandled exception"))]
                 ELSE [pc |-> "done", updates |-> inv[i].updates + r.requests,
                       logCalls |-> inv[i].logCalls + 1, loggedError |-> inv[i].thrown,
                       terminalAt |-> now,
                       updateAccepted |-> r.requests > 0 /\ outcome = "ok",
                       response |-> HttpResponse(500, NovaCors, Some("application/json"),
                           NovaEnvelope(FALSE, Null, inv[i].thrown, inv[i].executionId, now))])
    /\ UNCHANGED <<convVars, checkbox, creator, now, lastCall>>

\* ----- Ada: the form analyzer -----
\* text is kept as its sequence of words; toLowerCase maps each word
Lower(word) ==
    CASE word = "Helper" -> "helper"
      [] word = "Request" -> "request"
      [] word = "Skills" -> "skills"
      [] word = "Offered" -> "offered"
      [] OTHER -> word

LowerText(text) == [k \in DOMAIN text |-> Lower(text[k])]

\* text.includes(needle), on word sequences
Includes(text, needle) ==
    \E k \in 1..(Len(text) - Len(needle) + 1) : SubSeq(text, k, k + Len(needle) - 1) = needle

AdaBodies ==
    {Unparseable,
     Json([eventType |-> Some("FORM_RESPONSE")]),
     Json([data |-> Some([formName |-> Some(<<"Request", "for", "Help">>), fields |-> Some(<<>>)])]),
     Json([data |-> Some([formName |-> Some(<<"Apply", "to", "be", "a", "Helper">>)])]),
     Json([data |-> Some([fields |-> Some(<<[label |-> Some(<<"Skills", "Offered">>)]>>)])])}

TypeErrorUndefined == Some("Cannot read properties of undefined")

\* [thrown, formType] of determineFormType(formData)
determineFormType(formData) ==
    IF formData = Undefined THEN [thrown |-> TypeErrorUndefined, formType |-> Null]
    ELSE LET d == formData.v
             formName == IF Field(d, "formName") = Undefined THEN <<>>
                         ELSE LowerText(Field(d, "formName").v)
         IN IF Includes(formName, <<"helper">>) THEN [thrown |-> Null, formType |-> Some("helper")]
            ELSE IF Includes(formName, <<"request">>)
              THEN [thrown |-> Null, formType |-> Some("request")]
            ELSE IF Field(d, "fields") = Undefined
              THEN [thrown |-> TypeErrorUndefined, formType |-> Null]
            ELSE LET fields == Field(d, "fields").v
                     fieldLabels == [k \in DOMAIN fields |->
                                       IF Field(fields[k], "label") = Undefined THEN <<>>
                                       ELSE LowerText(Field(fields[k], "label").v)]
                 IN IF \E k \in DOMAIN fieldLabels :
                         Includes(fieldLabels[k], <<"skills", "offered">>)
                    THEN [thrown |-> Null, formType |-> Some("helper")]
                    ELSE [thrown |-> Null, formType |-> Some("request")]

\* ----- Ada: rendering a checkbox field -----
MaxFields == 2

\* the value of a form field: a boolean, a list of option ids, or a text
Bool(b) == [bool |-> b]
List(ids) == [list |-> ids]
Text(s) == [text |-> s]

\* !value is ~TruthyValue(value): false and the empty text are falsy, every list is truthy
TruthyValue(value) ==
    value # Null /\ value # Undefined /\ value # Bool(FALSE) /\ value # Text("")

\* array.join(sep)
RECURSIVE Join(_, _)
Join(strings, sep) ==
    IF strings = <<>> THEN ""
    ELSE IF Len(strings) = 1 THEN strings[1]
    ELSE strings[1] \o sep \o Join(Tail(strings), sep)

\* String(value)
StringOf(value) ==
    IF "text" \in DOMAIN value THEN value.text
    ELSE IF "list" \in DOMAIN value THEN Join(value.list, ",")
    ELSE IF value.bool THEN "true" ELSE "false"

\* the fields whose lower-cased label includes the lower-cased labelMatch
Matching(fields, labelMatch) ==
    {k \in DOMAIN fields :
       Includes(IF Field(fields[k], "label") = Undefined THEN <<>>
                ELSE LowerText(Field(fields[k], "label").v),
                LowerText(labelMatch))}

\* fields.find(...): the first matching field (only used when there is one)
Find(fields, labelMatch) ==
    fields[CHOOSE k \in Matching(fields, labelMatch) :
             \A j \in Matching(fields, labelMatch) : k <= j]

\* field.options.find(opt => opt.id === id)?.text || id
OptionText(options, id) ==
    LET hits == {k \in DOMAIN options : options[k].id = id}
    IN IF hits = {} THEN id
       ELSE LET opt == options[CHOOSE k \in hits : \A j \in hits : k <= j]
            IN IF Truthy(opt.text) THEN opt.text.v ELSE id

getCheckboxText(fields, labelMatch) ==
    IF Matching(fields, labelMatch) = {} THEN "Not specified"
    ELSE LET field == Find(fields, labelMatch)
             value == Field(field, "value")
             options == Field(field, "options")
         IN IF ~TruthyValue(value) THEN "Not specified"
            ELSE IF "list" \in DOMAIN value /\ Truthy(options)
              THEN Join([k \in DOMAIN value.list |-> OptionText(options.v, value.list[k])], ", ")
            ELSE IF value = Bool(TRUE) THEN "Yes"
            ELSE IF value = Bool(FALSE) THEN "No"
            ELSE StringOf(value)

\* the form fields the calls are made with
FieldOptions == <<[id |-> "o1", text |-> Some("Mornings")],
                  [id |-> "o2", text |-> Some("Evenings")]>>

FormFields ==
    [label : {Undefined, Some(<<"Skills", "Offered">>), Some(<<"Name">>)},
     value : {Undefined, Bool(TRUE), Bool(FALSE), List(<<"o1", "o2">>), List(<<"o9">>),
              Text("Weekends")},
     options : {Undefined, Some(FieldOptions)}]

\* the call getCheckboxText(fields, 'skills') returns
CheckboxReturn ==
    /\ checkbox.pc = "called"
    /\ checkbox' = [checkbox EXCEPT !.pc = "returned",
                       !.text = getCheckboxText(checkbox.fields, checkbox.labelMatch)]
    /\ UNCHANGED <<convVars, executions, creator, inv, now, lastCall>>

\* what the Resend API answers: rows is <<data>> when the body is JSON
EmailResponses ==
    {Response(TRUE, FALSE, FALSE, <<>>), Response(FALSE, TRUE, TRUE, <<"sent">>),
     Response(FALSE, FALSE, TRUE, <<"rejected">>), Response(FALSE, TRUE, FALSE, <<>>)}

\* the result object of sendEmail: building the email reads formData.fields,
\* and every failure inside is caught and returned as success: false
sendEmail(formData, resp) ==
    IF Field(formData.v, "fields") = Undefined
      THEN [success |-> FALSE, error |-> TypeErrorUndefined, stack |-> Some("stack")]
    ELSE IF resp.threw
      THEN [success |-> FALSE, error |-> Some("fetch failed"), stack |-> Some("stack")]
    ELSE IF ~resp.parses
      THEN [success |-> FALSE, error |-> JsonSyntaxError, stack |-> Some("stack")]
    ELSE IF ~resp.ok
      THEN [success |-> FALSE, data |-> Some(resp.rows[1]),
            error |-> Some("Resend API returned non-2xx"), responseText |-> Some(resp.rows[1])]
    ELSE [success |-> TRUE, data |-> Some(resp.rows[1])]

\* requests sent by sendEmail
EmailRequests(formData) == IF Field(formData.v, "fields") = Undefined THEN 0 ELSE 1

AdaProbe(env) ==
    [message |-> "Worker is running",
     hasResendKey |-> Truthy(env["RESEND_API_KEY"]),
     resendKeyPrefix |-> IF Truthy(Prefix(env["RESEND_API_KEY"]))
                         THEN Prefix(env["RESEND_API_KEY"]) ELSE Some("NO KEY"),
     hasAnthropicKey |-> Truthy(env["ANTHROPIC_API_KEY"]),
     anthropicKeyPrefix |-> IF Truthy(Prefix(env["ANTHROPIC_API_KEY"]))
                            THEN Prefix(env["ANTHROPIC_API_KEY"]) ELSE Some("NO KEY")]

AdaSuccessBody(formType, emailResult, env) ==
    JsonObject([formType |-> formType,
                emailError |-> OrNull(Field(emailResult, "error")),
                emailResponseText |-> OrNull(Field(emailResult, "responseText")),
                emailData |-> Field(emailResult, "data")])
    @@ [success |-> TRUE, emailSent |-> emailResult.success,
        debugInfo |-> JsonObject([resendKeyPrefix |-> Prefix(env["RESEND_API_KEY"])])
                      @@ [hasResendKey |-> Truthy(env["RESEND_API_KEY"]),
                          hasAnthropicKey |-> Truthy(env["ANTHROPIC_API_KEY"])]]

AdaFailureBody(thrown) ==
    [success |-> FALSE, error |-> thrown, stack |-> Some("stack")]

\* mutant: every method but GET is taken as the trigger
AdaFetchAcceptsAnyMethod(i) ==
    /\ inv[i].pc = "idle"
    /\ \E method \in Methods, env \in Envs :
         inv' = With(i,
           CASE method = "GET" ->
                  [pc |-> "done", agent |-> "ada", method |-> method, env |-> env,
                   response |-> HttpResponse(200, FALSE, Some("application/json"), AdaProbe(env))]
             [] OTHER ->
                  [pc |-> "parse", agent |-> "ada", method |-> method, env |-> env])
    /\ UNCHANGED <<convVars, checkbox, executions, creator, now, lastCall>>

\* the request arrives: GET is answered with the probe, every other non-POST
\* method with 405
AdaFetch(i) ==
    /\ inv[i].pc = "idle"
    /\ \E method \in Methods, env \in Envs :
         inv' = With(i,
           CASE method = "GET" ->
                  [pc |-> "done", agent |-> "ada", method |-> method, env |-> env,
                   response |-> HttpResponse(200, FALSE, Some("application/json"), AdaProbe(env))]
             [] method = "POST" ->
                  [pc |-> "parse", agent |-> "ada", method |-> method, env |-> env]
             [] OTHER ->
                  [pc |-> "done", agent |-> "ada", method |-> method,
                   response |-> HttpResponse(405, FALSE, Null, Some("Method not allowed"))])
    /\ UNCHANGED <<convVars, checkbox, executions, creator, now, lastCall>>

\* await request.json(), webhookData.data and determineFormType; a failure is
\* answered by the catch block with 500
AdaParse(i) ==
    /\ inv[i].pc = "parse" /\ inv[i].agent = "ada"
    /\ \E body \in AdaBodies :
         LET thrown == IF ~body.parses THEN JsonSyntaxError
                       ELSE determineFormType(Field(body.json, "data")).thrown
         IN inv' = With(i,
              IF thrown # Null
              THEN [pc |-> "done", body |-> body, thrown |-> thrown,
                    response |-> HttpResponse(500, FALSE, Some("application/json"),
                                              AdaFailureBody(thrown))]
              ELSE [pc |-> "email", body |-> body])
    /\ UNCHANGED <<convVars, checkbox, executions, creator, now, lastCall>>

\* emailResult = await sendEmail(...) and the 200 response
AdaSendEmail(i) ==
    /\ inv[i].pc = "email"
    /\ \E resp \in EmailResponses :
         LET formData == Field(inv[i].body.json, "data")
             emailResult == sendEmail(formData, resp)
         IN inv' = With(i,
              [pc |-> "done",
               collabCalls |-> inv[i].collabCalls + EmailRequests(formData),
               collabFailed |-> ~emailResult.success,
               response |-> HttpResponse(200, FALSE, Some("application/json"),
                   AdaSuccessBody(determineFormType(formData).formType, emailResult,
                                  inv[i].env))])
    /\ UNCHANGED <<convVars, checkbox, executions, creator, now, lastCall>>

Nova(i) ==
    \/ NovaFetch(i) \/ NovaParse(i) \/ NovaLogStart(i) \/ NovaVoiceExamples(i)
    \/ NovaSearch(i) \/ NovaGenerate(i) \/ NovaComplete(i) \/ NovaCatch(i)

Ada(i) == AdaFetch(i) \/ AdaParse(i) \/ AdaSendEmail(i)

\* the handlers: invocations run concurrently against the store
Next == \E i \in Invocations : Nova(i) \/ Ada(i)

Spec == Init /\ [][Next]_vars

\* one invocation with the clock running
TimedNext == Nova(1) \/ Ada(1) \/ Tick

TimedSpec == Init /\ [][TimedNext]_vars

\* the library on its own: any sequence of logger calls, with any ids
LoggerNext == LibStart \/ LibComplete \/ LibError

LoggerSpec == Init /\ [][LoggerNext]_vars

\* the conversations table may hold closed conversations when the calls begin
ConvInit ==
    /\ executions = <<>>
    /\ creator = <<>>
    /\ inv = [i \in Invocations |-> Idle]
    /\ now = 0
    /\ lastCall = NoCall
    /\ conversations \in {<<>>, <<[id |-> ConvId(1), user_id |-> "u1",
                                   status |-> "completed", created_at |-> 0]>>}
    /\ messages = <<>>
    /\ call = [c \in Callers |-> NotCalled]
    /\ lastSave = NoSave
    /\ checkbox = NoCheckbox

\* callers of getOrCreateConversation, running concurrently against the store
ConvNext == (\E c \in Callers : ConvLookup(c) \/ ConvCreate(c)) \/ Tick

ConvSpec == ConvInit /\ [][ConvNext]_vars

\* any sequence of saveMessage calls
MessageNext == LibSaveMessage \/ Tick

MessageSpec == Init /\ [][MessageNext]_vars

\* getCheckboxText called with any list of at most MaxFields fields
CheckboxInit ==
    /\ executions = <<>>
    /\ creator = <<>>
    /\ inv = [i \in Invocations |-> Idle]
    /\ now = 0
    /\ lastCall = NoCall
    /\ conversations = <<>>
    /\ messages = <<>>
    /\ call = [c \in Callers |-> NotCalled]
    /\ lastSave = NoSave
    /\ \E fields \in UNION {[1..n -> FormFields] : n \in 0..MaxFields} :
         checkbox = [pc |-> "called", fields |-> fields, labelMatch |-> <<"skills">>,
                     text |-> ""]

CheckboxNext == CheckboxReturn

CheckboxSpec == CheckboxInit /\ [][CheckboxNext]_vars

\* one invocation that is scheduled until it has returned its response
LiveNext == Nova(1) \/ Ada(1)

LiveSpec == Init /\ [][LiveNext]_vars /\ WF_vars(LiveNext)

\* ===== the claims =====
TerminalStatus == {"success", "error"}
FailedUpdates == {"non2xx", "throw"}
TerminalCalls == {"complete", "error"}

\* C2: logExecutionStart never raises; it returns the id of the created row when
\* the insert answers 2xx with that row, and null in every other case (non-2xx,
\* transport error, unparseable body, empty list, row without id).
C2_StartReturnsIdOrNull ==
    lastCall.op = "start" =>
        /\ ~lastCall.raised
        /\ lastCall.outcome = "created" =>
             /\ Truthy(lastCall.ret)
             /\ lastCall.ret = executions[Len(executions)].id
        /\ lastCall.outcome # "created" => lastCall.ret = Null

\* a start whose insert stored the row but answered without a usable id
C2_Witness ==
    /\ lastCall.op = "start"
    /\ lastCall.outcome \in {"malformed", "noid"}
    /\ lastCall.ret = Null
    /\ Len(executions) = MaxRecords

\* C3: logExecutionComplete and logExecutionError never raise to their caller;
\* when the update answers non-2xx or throws, the call returns normally and the
\* stored records are left as they were.
C3_TerminalCallsSwallowFailures ==
    [][lastCall'.op \in TerminalCalls =>
         /\ ~lastCall'.raised
         /\ lastCall'.outcome \in FailedUpdates => executions' = executions]_vars

\* a failed update of a row that exists and is still running
C3_Witness ==
    /\ lastCall.op = "error"
    /\ lastCall.outcome = "throw"
    /\ lastCall.requests = 1
    /\ \E k \in DOMAIN executions :
         executions[k].id = lastCall.executionId /\ executions[k].status = "running"

\* C4: logExecutionComplete and logExecutionError called with the null
\* executionId send no request to the store and leave every record unchanged.
C4_NullIdIsNoOp ==
    [][(lastCall'.op \in TerminalCalls /\ ~Truthy(lastCall'.executionId)) =>
         (lastCall'.requests = 0 /\ executions' = executions)]_vars

\* a complete call with the null id while the store would have accepted an update
C4_Witness ==
    /\ lastCall.op = "complete"
    /\ lastCall.executionId = Null
    /\ lastCall.outcome = "ok"
    /\ lastCall.requests = 0
    /\ \E k \in DOMAIN executions : executions[k].status = "running"

\* C8: under any sequence of logger calls a record is created in status running,
\* its status only changes running -> success or running -> error, and a record
\* in success or error is never changed again.
C8_TerminalRecordsAreFrozen ==
    [][/\ Len(executions') >= Len(executions)
       /\ \A k \in DOMAIN executions' :
            IF k \in DOMAIN executions
            THEN /\ executions[k].status \in TerminalStatus => executions'[k] = executions[k]
                 /\ executions'[k].status # executions[k].status =>
                      (executions[k].status = "running"
                       /\ executions'[k].status \in TerminalStatus)
            ELSE executions'[k].status = "running"]_vars

\* ----- claims about the handlers -----
Done(i) == inv[i].pc = "done"
Post(i) == Done(i) /\ inv[i].method = "POST"
NovaPost(i) == Post(i) /\ inv[i].agent = "nova"

\* the rows that the start of invocation i inserted
RowsOf(i) == {k \in DOMAIN executions : creator[k] = i}

\* the body of invocation i parsed to a JSON object, so its try block went on to the logger
Accepted(i) == inv[i].body.parses /\ inv[i].body.json # Null

\* invocations i and j got the same request and the same answers from the collaborators
SameRun(i, j) ==
    /\ inv[i].body = inv[j].body
    /\ inv[i].voiceExamples = inv[j].voiceExamples
    /\ inv[i].contextDocs = inv[j].contextDocs
    /\ inv[i].llm = inv[j].llm

SameAnswer(i, j) ==
    /\ inv[i].response.status = inv[j].response.status
    /\ DOMAIN inv[i].response.body = DOMAIN inv[j].response.body
    /\ inv[i].response.body.success = inv[j].response.body.success
    /\ inv[i].response.body.output = inv[j].response.body.output
    /\ inv[i].response.body.error = inv[j].response.body.error

\* C1: whatever the logging store does on the start insert and on the terminal
\* update, a Nova POST goes through its domain work, and two POSTs with the same
\* request and the same collaborator answers get the same HTTP status and the
\* same success, output and error, whatever the store did to either of them.
C1_LoggingFailuresInvisible ==
    /\ \A i \in Invocations : (NovaPost(i) /\ Accepted(i)) => inv[i].llm # Null
    /\ \A i, j \in Invocations :
         (NovaPost(i) /\ NovaPost(j) /\ SameRun(i, j)) => SameAnswer(i, j)

\* the same successful run twice: once logged in full, once with the start insert failed
C1_Witness ==
    \E i, j \in Invocations :
       /\ NovaPost(i) /\ NovaPost(j) /\ SameRun(i, j)
       /\ inv[i].response.status = 200 /\ inv[j].response.status = 200
       /\ Truthy(inv[i].executionId) /\ inv[i].updateAccepted
       /\ inv[j].executionId = Null /\ inv[j].inserts = 1 /\ inv[j].updates = 0
       /\ inv[j].response.body.metadata.executionId = Null

AgentResponseKeys == {"success", "output", "error", "metadata"}

\* the body is an AgentResponse with success <=> output non-null <=> error null
IsAgentResponse(body) ==
    /\ AgentResponseKeys \subseteq DOMAIN body
    /\ body.success \in BOOLEAN
    /\ body.success <=> body.output # Null
    /\ body.success <=> body.error = Null

\* C5: every response to a well-formed POST, from Nova and from Ada, is an
\* AgentResponse in which success holds exactly when output is non-null and
\* exactly when error is null.
C5_EveryPostAnswersAgentResponse ==
    \A i \in Invocations :
       (Post(i) /\ inv[i].body.parses) => IsAgentResponse(inv[i].response.body)

\* the domain logic of invocation i raised: generateContent threw
DomainFailed(i) ==
    NovaPost(i) /\ inv[i].llm # Null /\ generateContent(inv[i].llm).thrown # Null

\* exactly one row was inserted by invocation i, and it satisfies P
OneRow(i, P(_)) ==
    /\ Cardinality(RowsOf(i)) = 1
    /\ \A k \in RowsOf(i) : P(executions[k])

\* C6 as stated: whatever the logging store does, a Nova POST whose domain logic
\* raises leaves exactly one record of its own, in status error, with the
\* message of the failure.
C6_FailureAlwaysRecorded ==
    \A i \in Invocations :
       DomainFailed(i) =>
          OneRow(i, LAMBDA row : /\ row.status = "error"
                                 /\ row.error_message = inv[i].thrown)

\* C6 amended: when the store accepted the start insert (an id came back) and
\* the terminal update, a Nova POST whose domain logic raises leaves exactly one
\* record of its own, in status error, with the message of the failure, which
\* is also the error of the response.
C6_FailureRecordedWhenStoreAccepts ==
    \A i \in Invocations :
       (DomainFailed(i) /\ Truthy(inv[i].executionId) /\ inv[i].updateAccepted) =>
          OneRow(i, LAMBDA row : /\ row.id = inv[i].executionId
                                 /\ row.status = "error"
                                 /\ row.error_message = generateContent(inv[i].llm).thrown
                                 /\ row.error_message = inv[i].response.body.error)

C6_Witness ==
    \E i \in Invocations :
       /\ DomainFailed(i) /\ Truthy(inv[i].executionId) /\ inv[i].updateAccepted
       /\ inv[i].response.status = 500
       /\ \E k \in RowsOf(i) : executions[k].error_message = Some("Claude API error")

\* C7 as stated: whatever the logging store does, a Nova POST that returns
\* success true leaves exactly one record of its own, in status success, whose
\* output is the output of the response.
C7_SuccessAlwaysRecorded ==
    \A i \in Invocations :
       (NovaPost(i) /\ inv[i].response.body.success) =>
          OneRow(i, LAMBDA row : /\ row.status = "success"
                                 /\ row.output = inv[i].response.body.output)

\* C7 amended: when the store accepted the start insert (an id came back) and
\* the terminal update, a Nova POST that returns success true leaves exactly one
\* record of its own, in status success, whose output is the output of the
\* response.
C7_SuccessRecordedWhenStoreAccepts ==
    \A i \in Invocations :
       (/\ NovaPost(i) /\ inv[i].response.body.success
        /\ Truthy(inv[i].executionId) /\ inv[i].updateAccepted) =>
          OneRow(i, LAMBDA row : /\ row.id = inv[i].executionId
                                 /\ row.status = "success"
                                 /\ row.output # Null
                                 /\ row.output = inv[i].response.body.output)

C7_Witness ==
    \E i \in Invocations :
       /\ NovaPost(i) /\ inv[i].response.body.success
       /\ Truthy(inv[i].executionId) /\ inv[i].updateAccepted
       /\ \E k \in RowsOf(i) : executions[k].output.voiceExamplesUsed = 1

\* C9: in the Nova handler a failure raised after the POST is accepted gives
\* status 500 with success false, output null and the failure's message as
\* error; a run without a failure gives 200 with success true, so 500 is
\* returned in that case only.
C9_FailureGives500 ==
    \A i \in Invocations :
       NovaPost(i) =>
          /\ inv[i].thrown # Null =>
               /\ inv[i].response.status = 500
               /\ AgentResponseKeys \subseteq DOMAIN inv[i].response.body
               /\ inv[i].response.body.success = FALSE
               /\ inv[i].response.body.output = Null
               /\ inv[i].response.body.error = inv[i].thrown
          /\ inv[i].thrown = Null =>
               /\ inv[i].response.status = 200
               /\ inv[i].response.body.success = TRUE
          /\ inv[i].response.status = 500 <=> inv[i].thrown # Null

\* the LLM answered non-2xx and the handler returned the failure envelope
C9_Witness ==
    \E i \in Invocations :
       /\ NovaPost(i)
       /\ inv[i].thrown = Some("Claude API error")
       /\ inv[i].response.status = 500
       /\ inv[i].response.body.error = Some("Claude API error")

\* the request of invocation i is rejected: a method that is not allowed, or a
\* POST whose body is not JSON
Rejected(i) ==
    /\ Done(i)
    /\ \/ inv[i].response.status = 405
       \/ inv[i].method = "POST" /\ ~inv[i].body.parses

\* C10: a request with a disallowed method or an unparseable body creates no
\* ExecutionRecord, sends no update to the store and calls no collaborator.
C10_RejectedBeforeAnyWork ==
    \A i \in Invocations :
       Rejected(i) =>
          /\ RowsOf(i) = {}
          /\ inv[i].inserts = 0
          /\ inv[i].updates = 0
          /\ inv[i].collabCalls = 0

\* a Nova POST with an unparseable body, answered while another invocation's record exists
C10_Witness ==
    \E i \in Invocations :
       /\ NovaPost(i) /\ ~inv[i].body.parses
       /\ inv[i].response.status = 500
       /\ executions # <<>>

\* C11 as stated: every response with a non-2xx status (405 for a disallowed
\* method, 500 for a handler failure), from Nova and from Ada, has a JSON body
\* with the keys success, output, error and metadata.
C11_ErrorStatusCarriesAgentResponse ==
    \A i \in Invocations :
       (Done(i) /\ inv[i].response.status >= 300) =>
          /\ inv[i].response.contentType = Some("application/json")
          /\ AgentResponseKeys \subseteq DOMAIN inv[i].response.body

\* a Nova POST whose body is a JSON object without the topic field
MissingTopic(i) ==
    NovaPost(i) /\ Accepted(i) /\ Field(inv[i].body.json, "topic") = Undefined

\* the store gave invocation i an id at the start and accepted its terminal update
StoreAccepted(i) == Truthy(inv[i].executionId) /\ inv[i].updateAccepted

\* C12 as stated: a Nova POST whose body parses but has no topic is a domain
\* failure: the response has success false and the record of the invocation
\* ends in status error.
C12_MissingTopicIsDomainFailure ==
    \A i \in Invocations :
       MissingTopic(i) =>
          /\ inv[i].response.body.success = FALSE
          /\ StoreAccepted(i) => \A k \in RowsOf(i) : executions[k].status = "error"

\* the LLM call of invocation i was answered with a non-2xx status or with a
\* body that is not JSON
LlmRejected(i) ==
    /\ NovaPost(i) /\ inv[i].llm # Null
    /\ ~inv[i].llm.threw
    /\ ~inv[i].llm.ok \/ ~inv[i].llm.parses

\* C13: in the Nova handler, when the LLM call answers non-2xx or with a body
\* that cannot be parsed, logExecutionError is called (after the start, as the
\* second logger call) with the message of that failure, and the response is
\* 500 with success false, output null (no draft) and that message as error.
C13_LlmFailureIsDomainFailure ==
    \A i \in Invocations :
       LlmRejected(i) =>
          /\ inv[i].loggedError =
               (IF ~inv[i].llm.parses THEN Some("Failed to parse Anthropic response")
                ELSE Some("Claude API error"))
          /\ inv[i].logCalls = 2
          /\ inv[i].response.status = 500
          /\ inv[i].response.body.success = FALSE
          /\ inv[i].response.body.output = Null
          /\ inv[i].response.body.error = inv[i].loggedError

\* the LLM answered 2xx with a body that is not JSON, and the failure was stored
C13_Witness ==
    \E i \in Invocations :
       /\ LlmRejected(i) /\ inv[i].llm.ok /\ ~inv[i].llm.parses
       /\ inv[i].response.status = 500
       /\ \E k \in RowsOf(i) :
            executions[k].error_message = Some("Failed to parse Anthropic response")

\* C14 as stated: in the Nova handler, whenever a collaborator call (database
\* query, search, page-content fetch, LLM completion) answers non-success or
\* throws, the response has success false and the record ends in status error.
C14_CollaboratorFailureIsDomainFailure ==
    \A i \in Invocations :
       (NovaPost(i) /\ inv[i].collabFailed) =>
          /\ inv[i].response.body.success = FALSE
          /\ StoreAccepted(i) => \A k \in RowsOf(i) : executions[k].status = "error"

AdaPost(i) == Post(i) /\ inv[i].agent = "ada"

\* the email request of invocation i was sent and answered non-2xx or threw
EmailFailed(i) ==
    /\ AdaPost(i) /\ inv[i].collabCalls = 1
    /\ inv[i].response.body.emailError \in
         {Some("fetch failed"), Some("Resend API returned non-2xx")}

\* C15 as stated: in the Ada handler, when the email call answers non-2xx or
\* throws, the response has success false and a server-error status.
C15_EmailFailureIsDomainFailure ==
    \A i \in Invocations :
       EmailFailed(i) =>
          /\ inv[i].response.body.success = FALSE
          /\ inv[i].response.status >= 500

Probe(i) == Done(i) /\ inv[i].method = "GET"

\* C16: a GET to Nova or to Ada is answered 200 with a JSON body, whatever
\* credentials are configured, and the invocation writes nothing to the store,
\* calls no logger function and calls no collaborator.
C16_ProbeAlwaysAnswers ==
    \A i \in Invocations :
       Probe(i) =>
          /\ inv[i].response.status = 200
          /\ inv[i].response.contentType = Some("application/json")
          /\ "message" \in DOMAIN inv[i].response.body
          /\ RowsOf(i) = {}
          /\ inv[i].inserts = 0 /\ inv[i].updates = 0
          /\ inv[i].logCalls = 0
          /\ inv[i].collabCalls = 0

\* a handler probed with no credential configured, while the store holds the
\* record of another invocation
C16_Witness ==
    \E i \in Invocations :
       /\ Probe(i)
       /\ \A k \in EnvKeys : inv[i].env[k] = Undefined
       /\ ~inv[i].response.body.hasAnthropicKey
       /\ executions # <<>>

\* C17 as stated: the body of the response to a failed POST, from Nova and from
\* Ada, has no stack trace: its keys are among success, output, error, metadata.
C17_NoStackTraceInFailureBody ==
    \A i \in Invocations :
       (Post(i) /\ ~inv[i].response.body.success) =>
          /\ "stack" \notin DOMAIN inv[i].response.body
          /\ DOMAIN inv[i].response.body \subseteq AgentResponseKeys

\* ----- claims about the conversation accessor -----
Returned(c) == call[c].pc = "returned"

\* the calls for userId that have returned
ReturnedFor(userId) == {c \in Callers : Returned(c) /\ call[c].userId = userId}

\* every call made for userId so far ran alone and had its requests answered
Sequential(userId) ==
    \A c \in Callers :
       call[c].userId = userId => (~call[c].faulted /\ ~call[c].overlapped)

\* C18: when the calls of getOrCreateConversation for one user run one after
\* the other and the store answers them, starting with no active conversation
\* for the user, one call creates one record with status active and every call
\* returns that record: there is one active conversation and nothing else is
\* created.
C18_SequentialCallsAreIdempotent ==
    \A userId \in UserIds :
       (Sequential(userId) /\ ReturnedFor(userId) # {}) =>
          /\ Cardinality(ActiveOf(conversations, userId)) = 1
          /\ Cardinality({c \in ReturnedFor(userId) : call[c].created}) = 1
          /\ \A c \in ReturnedFor(userId) :
                \A k \in ActiveOf(conversations, userId) :
                   call[c].ret = Some(conversations[k])

\* three calls in a row for a user whose only conversation was closed
C18_Witness ==
    /\ Sequential("u1")
    /\ ReturnedFor("u1") = Callers
    /\ Len(conversations) = 2
    /\ conversations[1].status = "completed"
    /\ \A c \in Callers : call[c].ret = Some(conversations[2])

\* C19: nothing guards the insert of getOrCreateConversation: a call whose
\* lookup found no conversation inserts a new active conversation for its user
\* whenever the store accepts the insert, whatever the table holds by then, so
\* two concurrent calls for one user can both create a record.
C19_CreateIsUnguarded ==
    [][\A c \in Callers :
         (/\ call[c].pc = "create" /\ call'[c].pc = "returned"
          /\ call'[c].outcome \in {"created", "malformed"}) =>
            /\ Len(conversations') = Len(conversations) + 1
            /\ conversations'[Len(conversations')].user_id = call[c].userId
            /\ conversations'[Len(conversations')].status = "active"]_vars

\* two concurrent calls for one user, each answered by the store, and two
\* active conversations for that user
C19_Witness ==
    \E c, d \in Callers :
       /\ c # d /\ Returned(c) /\ Returned(d)
       /\ call[c].userId = "u1" /\ call[d].userId = "u1"
       /\ ~call[c].faulted /\ ~call[d].faulted
       /\ call[c].overlapped /\ call[d].overlapped
       /\ call[c].created /\ call[d].created
       /\ call[c].ret # call[d].ret
       /\ Cardinality(ActiveOf(conversations, "u1")) = 2

\* C20: saveMessage called with a null (or otherwise absent) conversationId
\* returns null, sends no request to the store and leaves the messages table
\* unchanged.
C20_NullConversationIsNoOp ==
    [][(lastSave'.outcome # "none" /\ ~Truthy(lastSave'.conversationId)) =>
         /\ lastSave'.ret = Null
         /\ lastSave'.requests = 0
         /\ messages' = messages]_vars

\* a call with the null conversationId, after a message was saved, while the
\* store would have accepted the insert
C20_Witness ==
    /\ lastSave.conversationId = Null
    /\ lastSave.outcome = "created"
    /\ lastSave.ret = Null
    /\ lastSave.requests = 0
    /\ Len(messages) = 1

\* the request of invocation i used a method that is neither the trigger (POST)
\* nor the probe (GET) nor the preflight (OPTIONS)
OtherMethod(i) == Done(i) /\ inv[i].method \notin {"POST", "GET", "OPTIONS"}

\* C21: a request whose method is not POST, GET or OPTIONS is answered 405,
\* and the invocation calls no logger function and writes nothing to the store.
C21_OtherMethodsAreRefused ==
    \A i \in Invocations :
       OtherMethod(i) =>
          /\ inv[i].response.status = 405
          /\ inv[i].logCalls = 0
          /\ inv[i].inserts = 0 /\ inv[i].updates = 0
          /\ RowsOf(i) = {}

\* a PUT to the Ada worker, refused while the record of another invocation exists
C21_Witness ==
    \E i \in Invocations :
       /\ OtherMethod(i) /\ inv[i].agent = "ada"
       /\ inv[i].response.status = 405
       /\ \E k \in DOMAIN executions : executions[k].status = "success"

\* C22 as stated: an OPTIONS request to Nova and to Ada is answered with an
\* empty 200 response that carries the CORS headers.
C22_PreflightAnswered ==
    \A i \in Invocations :
       (Done(i) /\ inv[i].method = "OPTIONS") =>
          /\ inv[i].response.status = 200
          /\ inv[i].response.body = Null
          /\ inv[i].response.cors

\* C23 as stated: in Nova and in Ada an accepted POST calls the logger's start
\* before its first collaborator call, and has called start and exactly one of
\* complete or error when the response is returned.
C23_LoggerCallsBracketTheWork ==
    \A i \in Invocations :
       /\ (inv[i].method = "POST" /\ inv[i].collabCalls > 0) => inv[i].logCalls >= 1
       /\ (Post(i) /\ Accepted(i)) => inv[i].logCalls = 2

\* C24 as stated: every record created by the start eventually leaves status
\* running.
C24_RecordAlwaysLeavesRunning ==
    \A k \in 1..MaxRecords :
       [](k \in DOMAIN executions =>
            <>(k \in DOMAIN executions /\ executions[k].status \in TerminalStatus))

\* C24 amended: for every record created by the start, the invocation that
\* created it eventually returns, having sent at most one terminal update, and
\* the record has then left status running exactly when the store gave the
\* invocation the record's id and accepted that update.
C24_RecordLeavesRunningWhenStoreAccepts ==
    \A k \in 1..MaxRecords :
       [](k \in DOMAIN executions =>
            <>(/\ k \in DOMAIN executions
               /\ Done(creator[k])
               /\ inv[creator[k]].updates <= 1
               /\ executions[k].status \in TerminalStatus <=> StoreAccepted(creator[k])))

\* the invocation returned and its record was moved to error by its one update
C24_Witness ==
    /\ Done(1) /\ StoreAccepted(1) /\ inv[1].updates = 1
    /\ Len(executions) = 1
    /\ executions[1].status = "error"

\* C25: every record in status success or error carries a duration_ms that is
\* not negative and is the time between the handler recording its start time
\* and its terminal logger call.
C25_DurationIsElapsedTime ==
    \A k \in DOMAIN executions :
       executions[k].status \in TerminalStatus =>
          /\ executions[k].duration_ms # Null
          /\ executions[k].duration_ms.v >= 0
          /\ executions[k].duration_ms.v =
               inv[creator[k]].terminalAt - inv[creator[k]].startTime

\* a successful invocation during which the clock advanced
C25_Witness ==
    \E k \in DOMAIN executions :
       /\ executions[k].status = "success"
       /\ executions[k].duration_ms = Some(1)
       /\ inv[creator[k]].startTime = 0
       /\ inv[creator[k]].terminalAt = 1

\* C26 as stated: in every Nova POST response metadata.executionId is the id of
\* the record that the invocation's start created, and it is null exactly when
\* no record was created for the invocation.
C26_ExecutionIdNullIffNoRecord ==
    \A i \in Invocations :
       NovaPost(i) =>
          /\ inv[i].response.body.metadata.executionId = Null <=> RowsOf(i) = {}
          /\ inv[i].response.body.metadata.executionId # Null =>
               \E k \in RowsOf(i) :
                  executions[k].id = inv[i].response.body.metadata.executionId

\* C26 amended: in every Nova POST response metadata.executionId is the value
\* the start returned; when it is not null it is the id of the one record the
\* invocation's start created; it is null when no record was created, and also
\* when the record was created but the store's answer did not carry its id.
C26_ExecutionIdIsStartResult ==
    \A i \in Invocations :
       NovaPost(i) =>
          /\ inv[i].response.body.metadata.executionId = inv[i].executionId
          /\ Cardinality(RowsOf(i)) <= 1
          /\ Truthy(inv[i].executionId) =>
               /\ RowsOf(i) # {}
               /\ \A k \in RowsOf(i) : executions[k].id = inv[i].executionId
          /\ RowsOf(i) = {} => inv[i].response.body.metadata.executionId = Null

\* one failed POST that carries the id of its record, and one POST whose record
\* was created although its response carries null
C26_Witness ==
    \E i, j \in Invocations :
       /\ NovaPost(i) /\ inv[i].response.status = 500
       /\ Truthy(inv[i].response.body.metadata.executionId)
       /\ \E k \in RowsOf(i) : executions[k].id = inv[i].response.body.metadata.executionId
       /\ NovaPost(j) /\ inv[j].response.body.metadata.executionId = Null
       /\ RowsOf(j) # {}

\* C27 as stated: getOrCreateConversation inserts a conversation only when its
\* lookup succeeded (and returned no active conversation): a call whose lookup
\* failed creates no row.
C27_InsertOnlyAfterSuccessfulLookup ==
    \A c \in Callers : call[c].created => call[c].lookup = "ok"

\* C28: with invocations running concurrently, a record changes only in the
\* terminal logger call of the invocation that created it and holds its id;
\* no step of an invocation changes the record of another.
C28_OnlyTheCreatorChangesARecord ==
    [][\A k \in DOMAIN executions :
         executions'[k] # executions[k] =>
            \E i \in Invocations :
               /\ inv[i].pc \in {"complete", "catch"} /\ inv'[i].pc = "done"
               /\ creator[k] = i
               /\ executions[k].id = inv[i].executionId]_vars

\* two invocations that both logged, one ending in success and one in error
C28_Witness ==
    \E i, j \in Invocations :
       /\ NovaPost(i) /\ NovaPost(j) /\ StoreAccepted(i) /\ StoreAccepted(j)
       /\ \E k \in RowsOf(i) : executions[k].status = "success"
       /\ \E k \in RowsOf(j) : executions[k].status = "error"

\* the same credentials are configured in both environments
SamePresence(e1, e2) == \A k \in EnvKeys : Truthy(e1[k]) <=> Truthy(e2[k])

\* C29 as stated: the probe response of a handler depends only on which
\* credentials are configured: two GETs to the same handler under environments
\* with the same credentials present get the same response, whatever the values.
C29_ProbeDependsOnPresenceOnly ==
    \A i, j \in Invocations :
       (/\ Probe(i) /\ Probe(j) /\ inv[i].agent = inv[j].agent
        /\ SamePresence(inv[i].env, inv[j].env)) =>
          inv[i].response = inv[j].response

\* C30 as stated: getCheckboxText renders the first matching field by its
\* value: true gives 'Yes', false gives 'No', a list of option ids (with
\* options) gives the option texts joined by ', ', and 'Not specified' is
\* returned only when no field matches or the field has no value.
C30_CheckboxRenderedByValue ==
    (checkbox.pc = "returned" /\ Matching(checkbox.fields, checkbox.labelMatch) # {}) =>
       LET field == Find(checkbox.fields, checkbox.labelMatch)
       IN /\ field.value = Bool(TRUE) => checkbox.text = "Yes"
          /\ field.value = Bool(FALSE) => checkbox.text = "No"
          /\ (field.value = List(<<"o1", "o2">>) /\ field.options # Undefined) =>
               checkbox.text = "Mornings, Evenings"
          /\ checkbox.text = "Not specified" => field.value \in {Undefined, Null}

====
